---- MODULE Spec2Model ----
(***************************************************************************)
(* Model of furious/test_stubs/appengine/queues.py: the helpers that pull  *)
(* tasks out of the App Engine testbed task queue stub and run them.       *)
(*                                                                         *)
(* The task queue service is a mapping from queue name to the ordered list *)
(* of pending tasks.  Executing a task hands it to process_async_task,     *)
(* whose only effect on the service is that it may insert follow-on tasks. *)
(***************************************************************************)
EXTENDS Integers, Sequences, FiniteSets, TLC

\* ------------------------------------------------------------------ bounds
\* Largest number of tasks pending over all queues before the call.
MaxInit == 2
\* Longest chain of follow-on tasks a pending task starts.
MaxGen == 1
\* Largest max_iterations handed to run.
MaxM == 3

\* run() without a limit never returns while a task keeps re-inserting
\* itself; the model stops starting new iterations here.  A finite chain of
\* follow-on tasks is drained in at most MaxGen + 2 iterations, and a limit
\* stops run after at most MaxM.
IterCap == IF MaxM > MaxGen + 2 THEN MaxM ELSE MaxGen + 2

\* ------------------------------------------------------- the queue service
None == "None"

\* taskq_service.GetQueues(): the queue descriptions, in discovery order.
GetQueues ==
    << [name |-> "a", mode |-> "push"],
       [name |-> "p", mode |-> "pull"],
       [name |-> "b", mode |-> "push"] >>

QueueNames == {GetQueues[i].name : i \in 1..Len(GetQueues)}

Range(s) == {s[i] : i \in 1..Len(s)}

Ids(s) == {s[i].id : i \in 1..Len(s)}

\* [description['name'] for description in queue_descriptions]
get_queue_names ==
    [i \in 1..Len(GetQueues) |-> GetQueues[i].name]

IsPush(d) == "push" = d.mode

IsPull(d) == "pull" = d.mode

\* Variant: the mode test is left out.
get_push_queue_names_unfiltered == get_queue_names

\* [description['name'] for ... if 'push' == description.get('mode')]
get_push_queue_names ==
    LET push == SelectSeq(GetQueues, IsPush)
    IN  [i \in 1..Len(push) |-> push[i].name]

\* [description['name'] for ... if 'pull' == description.get('mode')]
get_pull_queue_names ==
    LET pull == SelectSeq(GetQueues, IsPull)
    IN  [i \in 1..Len(pull) |-> pull[i].name]

\* --------------------------------------------------------------- the tasks
\* What process_async_task does with a task, as far as the queues see it:
\*   leaf   inserts nothing;
\*   spawn  inserts one follow-on task into queue `to`, the head of a chain
\*          of gen follow-on tasks that all go to `to`;
\*   self   inserts a copy of itself into the queue it was taken from;
\*   fail   makes process_async_task raise an exception.
\* A task carries a name, its identifier in its queue, unless `named` is
\* false: the task record then has no name.
Leaf == [kind |-> "leaf", to |-> None, gen |-> 0, named |-> TRUE]

Self == [kind |-> "self", to |-> None, gen |-> 0, named |-> TRUE]

Spawn(q, g) == [kind |-> "spawn", to |-> q, gen |-> g, named |-> TRUE]

Fail == [kind |-> "fail", to |-> None, gen |-> 0, named |-> TRUE]

Nameless == [kind |-> "leaf", to |-> None, gen |-> 0, named |-> FALSE]

\* The behaviours of the tasks pending before the call; the shorter chains
\* are those of the follow-on tasks.
Behaviours ==
    {Leaf, Self} \cup {Spawn(q, MaxGen) : q \in QueueNames}

\* The behaviours of the pending tasks when the task processor may fail.
FailBehaviours == {Leaf, Self, Fail}

\* The behaviours of the pending tasks in the tests of run_random.
RandomBehaviours ==
    {Leaf, Self, Nameless} \cup {Spawn(q, MaxGen) : q \in Range(get_pull_queue_names)}

\* A task record as GetTasks returns it; id tells the tasks apart in the
\* model, name is the record's 'name': <<>> when it has none.
Task(i, b) ==
    [id |-> i, name |-> IF b.named THEN <<i>> ELSE <<>>,
     kind |-> b.kind, to |-> b.to, gen |-> b.gen]

VARIABLES
    queues,          \* the service: queue name -> pending tasks, in order
    nextId,          \* the next unused task identifier
    pc,              \* where the call in progress stands
    op,              \* the function the test called
    arg,             \* the queue_names argument as the caller gave it
    queue_names,     \* run: the queue names drained
    max_iterations,  \* run: the limit, or None
    iterations,      \* run: iterations
    tasks_processed, \* run: tasks_processed
    processed,       \* run: processed (a bool, then the count of a pass)
    qi,              \* _run: position of the for loop in queue_names
    pass_processed,  \* _run: num_processed
    queue_name,      \* run_queue: queue_name
    tasks,           \* run_queue: tasks, the fetched list
    num_processed,   \* run_queue: num_processed
    result,          \* the value returned to the test
    queues0,         \* history: the service when the call was made
    trace,           \* history: the fetches and executions of the call
    enqueued,        \* history: the tasks inserted during the call, per queue
    iterStart,       \* history: ids pending in the drained queues when the
                     \*          iteration in progress started
    environ,         \* os.environ['REQUEST_ID_HASH']: <<>> when not set
    context,         \* the request-scoped context: <<>> when cleared, else
                     \*          the id of the task whose state it holds
    runner,          \* Runner: <<>> before construction, then
                     \*          <<self.queue_names>>
    runner0,         \* history: <<the names bound by Runner.__init__>>
    calls,           \* history: the calls made on the Runner so far
    rng,             \* the generator of the random module
    queue_descs,     \* run_random: queues, the queue descriptions given
    random_seed,     \* run_random: random_seed
    max_tasks,       \* run_random: max_tasks
    queue_index,     \* run_random: queue_index
    processed_queue_count, \* run_random: processed_queue_count
    task_ran,        \* run_random: task_ran
    random_task,     \* _run_random_task_from_queue: <<task>>, <<>> for None
    stream,          \* the values the generator yields once seeded with
                     \*          random_seed, as far as they were drawn
    firstRun,        \* history: <<what an earlier, identical run_random did>>
    task_dict        \* add_tasks: task_dict, queue name -> tasks to add

vars ==
    << queues, nextId, pc, op, arg, queue_names, max_iterations, iterations,
       tasks_processed, processed, qi, pass_processed, queue_name, tasks,
       num_processed, result, queues0, trace, enqueued, iterStart,
       environ, context, runner, runner0, calls, rng, queue_descs,
       random_seed, max_tasks, queue_index, processed_queue_count, task_ran,
       random_task, stream, firstRun, task_dict >>

\* The state of one request: what _execute_task sets up and tears down.
requestVars == << environ, context >>

runnerVars == << runner, runner0, calls >>

randomVars ==
    << queue_descs, random_seed, max_tasks, queue_index,
       processed_queue_count, task_ran, random_task >>

\* The state that run_queue, run and purge_tasks never touch.
extVars == << runnerVars, rng, randomVars, stream, firstRun, task_dict >>

runVars ==
    << queue_names, max_iterations, iterations, tasks_processed, processed >>

passVars == << qi, pass_processed >>

queueVars == << queue_name, tasks, num_processed >>

NoEnqueued == [q \in QueueNames |-> <<>>]

\* ------------------------------------------------------- argument values
\* The queue_names argument: None, one name as a string, or a list of names.
ArgNone == [kind |-> "none", val |-> <<>>]

ArgName(q) == [kind |-> "name", val |-> <<q>>]

ArgList(s) == [kind |-> "list", val |-> s]

\* The lists of queue names the test hands over: any names of the service,
\* repeated or not, up to as many as the default list of run holds.
MaxNames == Len(get_push_queue_names)

NameLists == UNION {[1..n -> QueueNames] : n \in 0..MaxNames}

\* Python's truth value of a queue_names argument: None and [] are false.
Truthy(a) == a.kind # "none" /\ a.val # <<>>

\* The max_iterations argument: <<>> is None, <<m>> is the integer m.
NoLimit == <<>>

Limit(m) == <<m>>

Limits == {NoLimit} \cup {Limit(m) : m \in 0..MaxM}

\* A Python bool used as a number: True is 1, False is 0.
Bool(b) == IF b THEN 1 ELSE 0

\* ------------------------------------------------------ the random module
\* The generator is a deterministic function of the seed it was given and
\* of the number of values drawn since: rng holds both, and stream holds the
\* values that follow random.seed(random_seed), which are free until they
\* are drawn for the first time and fixed from then on.  Before random.seed
\* is called the generator is in the state the interpreter left it in and
\* nothing is known about its values.
Unseeded == [seed |-> <<>>, count |-> 0]

\* ------------------------------------------------------------ initial state
\* A placement of at most MaxInit tasks: (queue position, behaviour) pairs,
\* listed queue by queue; task identifiers are handed out in that order.
PlacementsOf(B) ==
    UNION {[1..n -> (1..Len(GetQueues)) \X B] : n \in 0..MaxInit}

Placements == PlacementsOf(Behaviours)

Ordered(pl) == \A i \in 1..(Len(pl) - 1) : pl[i][1] <= pl[i + 1][1]

RECURSIVE Place(_, _, _)
Place(pl, k, i) ==
    IF i > Len(pl) THEN <<>>
    ELSE IF pl[i][1] = k THEN <<Task(i, pl[i][2])>> \o Place(pl, k, i + 1)
    ELSE Place(pl, k, i + 1)

InitQueues(pl) ==
    [q \in QueueNames |->
        LET k == CHOOSE j \in 1..Len(GetQueues) : GetQueues[j].name = q
        IN  Place(pl, k, 1)]

\* The state before the test calls anything, with one of the placements pls.
InitWith(pls) ==
    /\ \E pl \in pls :
          /\ Ordered(pl)
          /\ queues = InitQueues(pl)
          /\ nextId = Len(pl) + 1
    /\ pc = "idle"
    /\ op = None
    /\ arg = ArgNone
    /\ queue_names = <<>>
    /\ max_iterations = NoLimit
    /\ iterations = 0
    /\ tasks_processed = 0
    /\ processed = 0
    /\ qi = 0
    /\ pass_processed = 0
    /\ queue_name = None
    /\ tasks = <<>>
    /\ num_processed = 0
    /\ result = None
    /\ queues0 = queues
    /\ trace = <<>>
    /\ enqueued = NoEnqueued
    /\ iterStart = {}
    /\ environ = <<>>
    /\ context = <<>>
    /\ runner = <<>>
    /\ runner0 = <<>>
    /\ calls = <<>>
    /\ rng = Unseeded
    /\ queue_descs = <<>>
    /\ random_seed = 0
    /\ max_tasks = 0
    /\ queue_index = 0
    /\ processed_queue_count = 0
    /\ task_ran = FALSE
    /\ random_task = <<>>
    /\ stream = <<>>
    /\ firstRun = <<>>
    /\ task_dict = NoEnqueued

Init == InitWith(Placements)

\* ------------------------------------------------------------ _execute_task
\* The tasks process_async_task inserts while it handles task t, which was
\* taken from queue q: (queue, task) pairs with fresh identifiers.
Inserted(t, q, id) ==
    CASE t.kind = "leaf"  -> <<>>
      [] t.kind = "self"  -> << <<q, Task(id, Self)>> >>
      [] t.kind = "spawn" ->
            << <<t.to, Task(id, IF t.gen > 1 THEN Spawn(t.to, t.gen - 1)
                                             ELSE Leaf)>> >>

RECURSIVE AddAll(_, _)
AddAll(qs, ins) ==
    IF ins = <<>> THEN qs
    ELSE AddAll([qs EXCEPT ![Head(ins)[1]] = Append(@, Head(ins)[2])],
                Tail(ins))

\* uuid.uuid4().hex: a value that was never handed out before.
uuid4 == <<Len(trace) + 1>>

\* _execute_task(task): set the request identifier, decode the body, process
\* the task, clear the context and delete the request identifier.
_execute_task(t, q) ==
    LET ins == Inserted(t, q, nextId)
    IN  /\ queues' = AddAll(queues, ins)
        /\ enqueued' = AddAll(enqueued, ins)
        /\ nextId' = nextId + Len(ins)
        /\ environ' = <<>>
        /\ context' = <<>>

\* _execute_task(task) when process_async_task raises: the statements after
\* the call are not reached.  What the processor left in the context when
\* it failed is its own affair: nothing, or the state of the task.
_execute_task_raises(t, q) ==
    /\ environ' = uuid4
    /\ context' \in {<<>>, <<t.id>>}
    /\ UNCHANGED << queues, enqueued, nextId >>

\* ---------------------------------------------------------------- run_queue
Fetch(it, pos, q, ts) ==
    [type |-> "fetch", iter |-> it, pos |-> pos, queue |-> q, ids |-> ts]

Exec(it, pos, q, t) ==
    [type |-> "exec", iter |-> it, pos |-> pos, queue |-> q, ids |-> <<t.id>>,
     rid |-> uuid4]

Failed(it, pos, q, t) ==
    [type |-> "fail", iter |-> it, pos |-> pos, queue |-> q, ids |-> <<t.id>>,
     rid |-> uuid4]

\* Variant: the queue is not cleared.
FlushQueueKeeps(qs, q) == qs

\* taskq_service.FlushQueue(queue_name)
FlushQueue(qs, q) == [qs EXCEPT ![q] = <<>>]

\* Variant: the tasks are fetched after the queue was cleared.
GetTasksFlushed(q) == FlushQueue(queues, q)[q]

\* taskq_service.GetTasks(queue_name)
GetTasks(q) == queues[q]

\* Variant: the return sits inside the for loop.
LoopDoneEarly(n, ts) == n >= 1 \/ n >= Len(ts)

\* for task in tasks: the loop is over when every fetched task had its turn.
LoopDone(n, ts) == n >= Len(ts)

IdSeq(ts) == [i \in 1..Len(ts) |-> ts[i].id]

\* run_queue, to the start of its for loop: fetch the tasks, clear the queue.
run_queue_begin(q, it, pos) ==
    /\ queue_name' = q
    /\ tasks' = GetTasks(q)
    /\ queues' = FlushQueue(queues, q)
    /\ num_processed' = 0
    /\ trace' = Append(trace, Fetch(it, pos, q, IdSeq(GetTasks(q))))
    /\ pc' = "run_queue"

\* The test calls run_queue(taskq_service, q).
RunQueueCall ==
    /\ pc = "idle"
    /\ \E q \in QueueNames :
          /\ run_queue_begin(q, 0, 0)
          /\ arg' = ArgName(q)
    /\ op' = "run_queue"
    /\ queues0' = queues
    /\ UNCHANGED << nextId, runVars, passVars, result, enqueued, iterStart >>
    /\ UNCHANGED << requestVars, extVars >>

\* One turn of run_queue's for loop: execute the next fetched task.
RunQueueTask ==
    /\ pc = "run_queue"
    /\ ~LoopDone(num_processed, tasks)
    /\ LET task == tasks[num_processed + 1]
       IN  /\ task.kind # "fail"
           /\ _execute_task(task, queue_name)
           /\ trace' = Append(trace, Exec(iterations, qi, queue_name, task))
    /\ num_processed' = num_processed + 1
    /\ UNCHANGED << pc, op, arg, runVars, passVars, queue_name, tasks, result,
                    queues0, iterStart >>
    /\ UNCHANGED extVars

\* Variant: run_queue catches the failure and goes on with the next task.
AfterFailureGoesOn(n) == [pc |-> "run_queue", num_processed |-> n + 1]

\* Neither run_queue nor _run nor run has an except clause: a failure of
\* _execute_task leaves them all and reaches the test.
AfterFailure(n) == [pc |-> "raised", num_processed |-> n]

\* One turn of run_queue's for loop in which the task processor fails.
RunQueueTaskRaises ==
    /\ pc = "run_queue"
    /\ ~LoopDone(num_processed, tasks)
    /\ LET task == tasks[num_processed + 1]
       IN  /\ task.kind = "fail"
           /\ _execute_task_raises(task, queue_name)
           /\ trace' = Append(trace, Failed(iterations, qi, queue_name, task))
    /\ pc' = AfterFailure(num_processed).pc
    /\ num_processed' = AfterFailure(num_processed).num_processed
    /\ UNCHANGED << op, arg, runVars, passVars, queue_name, tasks, result,
                    queues0, iterStart >>
    /\ UNCHANGED extVars

\* run_queue returns num_processed to the test.
RunQueueReturn ==
    /\ pc = "run_queue"
    /\ op = "run_queue"
    /\ LoopDone(num_processed, tasks)
    /\ result' = num_processed
    /\ pc' = "done"
    /\ UNCHANGED << queues, nextId, op, arg, runVars, passVars, queueVars,
                    queues0, trace, enqueued, iterStart >>
    /\ UNCHANGED << requestVars, extVars >>

\* ---------------------------------------------------------------------- run
\* if not queue_names: queue_names = get_push_queue_names(taskq_service)
DrainedNames(a) == IF ~Truthy(a) THEN get_push_queue_names ELSE a.val

\* Variant: the limit is compared with >= 0.
InitialProcessedAtZero(m) == Bool(m = NoLimit \/ m[1] >= 0)

\* processed = (max_iterations is None or max_iterations > 0)
InitialProcessed(m) == Bool(m = NoLimit \/ m[1] > 0)

\* Variant: while True.
KeepProcessingAlways(p) == TRUE

\* while processed:
KeepProcessing(p) == p # 0

\* Variant: iterations is compared with >.
LimitReachedLate(m, it) == m # NoLimit /\ m[1] # 0 /\ it > m[1]

\* if max_iterations and iterations >= max_iterations: break
LimitReached(m, it) == m # NoLimit /\ m[1] # 0 /\ it >= m[1]

\* Variant: the for loop leaves out the last queue name.
MoreQueuesButLast(i, names) == i < Len(names)

\* for queue_name in queue_names: queue names are left to drain.
MoreQueues(i, names) == i <= Len(names)

\* Variant: = in place of +=.
PassCountLast(total, n) == n

\* num_processed += run_queue(taskq_service, queue_name)
PassCount(total, n) == total + n

PendingIds(names) == UNION {Ids(queues[names[i]]) : i \in 1..Len(names)}

\* run, to its while loop: default the queue names, set up the counters.
run_begin(a, m) ==
    /\ arg' = a
    /\ queue_names' = DrainedNames(a)
    /\ max_iterations' = m
    /\ processed' = InitialProcessed(m)
    /\ iterations' = 0
    /\ tasks_processed' = 0
    /\ op' = "run"
    /\ pc' = "run_while"
    /\ queues0' = queues
    /\ UNCHANGED << queues, nextId, passVars, queueVars, result, trace,
                    enqueued, iterStart >>

\* The test calls run(taskq_service, queue_names, max_iterations).
RunCall ==
    /\ pc = "idle"
    /\ \E a \in {ArgNone} \cup {ArgList(s) : s \in NameLists}, m \in Limits :
          run_begin(a, m)
    /\ UNCHANGED << requestVars, extVars >>

\* The while test succeeds: run calls _run, which starts its for loop.
RunIterate ==
    /\ pc = "run_while"
    /\ KeepProcessing(processed)
    /\ iterations < IterCap
    /\ pass_processed' = 0
    /\ qi' = 1
    /\ iterStart' = PendingIds(queue_names)
    /\ pc' = "_run"
    /\ UNCHANGED << queues, nextId, op, arg, runVars, queueVars, result,
                    queues0, trace, enqueued >>
    /\ UNCHANGED << requestVars, extVars >>

\* _run's for loop calls run_queue on the next queue name.
RunPassQueue ==
    /\ pc = "_run"
    /\ MoreQueues(qi, queue_names)
    /\ run_queue_begin(queue_names[qi], iterations, qi)
    /\ UNCHANGED << nextId, op, arg, runVars, passVars, result, queues0,
                    enqueued, iterStart >>
    /\ UNCHANGED << requestVars, extVars >>

\* run_queue returns num_processed to _run, which adds it up.
RunQueueReturnToPass ==
    /\ pc = "run_queue"
    /\ op = "run"
    /\ LoopDone(num_processed, tasks)
    /\ pass_processed' = PassCount(pass_processed, num_processed)
    /\ qi' = qi + 1
    /\ pc' = "_run"
    /\ UNCHANGED << queues, nextId, op, arg, runVars, queueVars, result,
                    queues0, trace, enqueued, iterStart >>
    /\ UNCHANGED << requestVars, extVars >>

\* _run returns; run counts the iteration and tests the limit.
\* Variant: _run returns nothing, which run's while test takes as False.
PassResultDropped(n) == 0

\* return num_processed, at the end of _run
PassResult(n) == n

\* _run returns its count to run, which adds it up and tests the limit.
RunPassEnd ==
    /\ pc = "_run"
    /\ ~MoreQueues(qi, queue_names)
    /\ processed' = PassResult(pass_processed)
    /\ tasks_processed' = tasks_processed + pass_processed
    /\ iterations' = iterations + 1
    /\ pc' = IF LimitReached(max_iterations, iterations + 1)
             THEN "run_return" ELSE "run_while"
    /\ UNCHANGED << queues, nextId, op, arg, queue_names, max_iterations,
                    passVars, queueVars, result, queues0, trace, enqueued,
                    iterStart >>
    /\ UNCHANGED << requestVars, extVars >>

\* run returns {'iterations': ..., 'tasks_processed': ...}.
RunReturn ==
    /\ \/ pc = "run_return"
       \/ pc = "run_while" /\ ~KeepProcessing(processed)
    /\ result' = [iterations |-> iterations,
                  tasks_processed |-> tasks_processed]
    /\ pc' = "done"
    /\ UNCHANGED << queues, nextId, op, arg, runVars, passVars, queueVars,
                    queues0, trace, enqueued, iterStart >>
    /\ UNCHANGED << requestVars, extVars >>

\* -------------------------------------------------------------- purge_tasks
\* Variant: the default is the push queues, as in run.
PurgedNamesPushOnly(a) == IF ~Truthy(a) THEN get_push_queue_names ELSE a.val

\* if isinstance(queue_names, basestring): queue_names = [queue_names]
\* if not queue_names: queue_names = get_queue_names(taskq_service)
PurgedNames(a) == IF ~Truthy(a) THEN get_queue_names ELSE a.val

\* purge_tasks' for loop over names, from service qs and count n.
RECURSIVE purge_loop(_, _, _)
purge_loop(qs, names, n) ==
    IF names = <<>> THEN [queues |-> qs, num_tasks |-> n]
    ELSE purge_loop(FlushQueue(qs, Head(names)), Tail(names),
                    n + Len(qs[Head(names)]))

\* The test calls purge_tasks(taskq_service, queue_names).
purge_tasks ==
    /\ pc = "idle"
    /\ \E a \in {ArgNone} \cup {ArgName(q) : q \in QueueNames}
                \cup {ArgList(s) : s \in NameLists} :
          LET r == purge_loop(queues, PurgedNames(a), 0)
          IN  /\ arg' = a
              /\ queues' = r.queues
              /\ result' = r.num_tasks
    /\ op' = "purge_tasks"
    /\ pc' = "done"
    /\ queues0' = queues
    /\ UNCHANGED << nextId, runVars, passVars, queueVars, trace, enqueued,
                    iterStart >>
    /\ UNCHANGED << requestVars, extVars >>

Next ==
    \/ RunQueueCall
    \/ RunQueueTask
    \/ RunQueueReturn
    \/ RunCall
    \/ RunIterate
    \/ RunPassQueue
    \/ RunQueueReturnToPass
    \/ RunPassEnd
    \/ RunReturn
    \/ purge_tasks

Spec == Init /\ [][Next]_vars

\* The module is single-threaded and every call runs to completion: a step
\* that can be taken is taken.
FairSpec == Init /\ [][Next]_vars /\ WF_vars(Next)

\* ------------------------------------------------------------------- Runner
\* Largest number of calls the test makes on one Runner.
MaxCalls == 2

\* The behaviours of the pending tasks in the tests of the Runner.
RunnerBehaviours == {Leaf, Self}

\* The queue_names the test constructs a Runner with: None, no name, one
\* name, or all names of the service.
RunnerArgs ==
    {ArgNone, ArgList(<<>>), ArgList(get_queue_names)}
       \cup {ArgList(<<q>>) : q \in QueueNames}

\* The limits the test hands to Runner.run.
RunnerLimits == {NoLimit, Limit(1)}

\* Runner.__init__: if None == queue_names: get_push_queue_names(...)
\* else: queue_names
BoundNames(a) == IF a.kind = "none" THEN get_push_queue_names ELSE a.val

\* The test constructs Runner(taskq_service, queue_names).
RunnerInit ==
    /\ pc = "idle"
    /\ runner = <<>>
    /\ \E a \in RunnerArgs :
          /\ runner' = <<BoundNames(a)>>
          /\ runner0' = <<BoundNames(a)>>
    /\ UNCHANGED << queues, nextId, pc, op, arg, runVars, passVars, queueVars,
                    result, queues0, trace, enqueued, iterStart, requestVars,
                    calls, rng, randomVars, stream, firstRun,
                    task_dict >>

\* The test calls runner.run(max_iterations).
RunnerRun ==
    /\ pc = "idle"
    /\ runner # <<>>
    /\ \E m \in RunnerLimits : run_begin(ArgList(runner[1]), m)
    /\ calls' = Append(calls, "run")
    /\ UNCHANGED << requestVars, runner, runner0, rng, randomVars, stream,
                    firstRun, task_dict >>

\* The test calls runner.run_queue(queue_name).
RunnerRunQueue ==
    /\ pc = "idle"
    /\ runner # <<>>
    /\ \E q \in QueueNames :
          /\ run_queue_begin(q, 0, 0)
          /\ arg' = ArgName(q)
    /\ op' = "run_queue"
    /\ queues0' = queues
    /\ calls' = Append(calls, "run_queue")
    /\ UNCHANGED << nextId, runVars, passVars, result, enqueued, iterStart,
                    requestVars, runner, runner0, rng, randomVars, stream,
                    firstRun, task_dict >>

\* The call has returned and the test goes on to call the Runner again: the
\* service and the Runner stay as they are, the history starts afresh.
RunnerAgain ==
    /\ pc = "done"
    /\ Len(calls) < MaxCalls
    /\ pc' = "idle"
    /\ op' = None
    /\ arg' = ArgNone
    /\ queue_names' = <<>>
    /\ max_iterations' = NoLimit
    /\ iterations' = 0
    /\ tasks_processed' = 0
    /\ processed' = 0
    /\ qi' = 0
    /\ pass_processed' = 0
    /\ queue_name' = None
    /\ tasks' = <<>>
    /\ num_processed' = 0
    /\ result' = None
    /\ queues0' = queues
    /\ trace' = <<>>
    /\ enqueued' = NoEnqueued
    /\ iterStart' = {}
    /\ UNCHANGED << queues, nextId, requestVars, runnerVars, rng, randomVars,
                    stream, firstRun, task_dict >>

RunnerInitial == InitWith(PlacementsOf(RunnerBehaviours))

RunnerNext ==
    \/ RunnerInit
    \/ RunnerRun
    \/ RunnerRunQueue
    \/ RunnerAgain
    \/ RunQueueTask
    \/ RunQueueReturn
    \/ RunIterate
    \/ RunPassQueue
    \/ RunQueueReturnToPass
    \/ RunPassEnd
    \/ RunReturn

RunnerSpec == RunnerInitial /\ [][RunnerNext]_vars

\* ------------------------------------------- when the task processor fails
FailInit == InitWith(PlacementsOf(FailBehaviours))

FailNext ==
    \/ Next
    \/ RunQueueTaskRaises

FailSpec == FailInit /\ [][FailNext]_vars

\* ------------------------------------------------------ reading the history
IsExec(e) == e.type = "exec"

IsFetch(e) == e.type = "fetch"

\* The identifiers of the tasks executed since the call, in order.
Executed ==
    LET ex == SelectSeq(trace, IsExec)
    IN  [i \in 1..Len(ex) |-> ex[i].ids[1]]

\* The identifiers of the tasks inserted since the call.
EnqueuedIds == UNION {Ids(enqueued[q]) : q \in QueueNames}

IsPrefix(s, t) ==
    Len(s) <= Len(t) /\ \A i \in 1..Len(s) : s[i] = t[i]

NoDuplicates(s) == \A i, j \in 1..Len(s) : s[i] = s[j] => i = j

Returned(f) == pc = "done" /\ op = f

\* --------------------------------------------------------------- run_random
\* Largest max_tasks handed to run_random.
MaxTasks == 2

\* random_seed=123
DefaultSeed == 123

\* The queue descriptions handed to run_random: those of the service, or
\* some of them, in the service's order.
DescLists ==
    {LET n == Cardinality(S)
         f == CHOOSE g \in [1..n -> S] :
                 \A i, j \in 1..n : i < j => g[i] < g[j]
     IN  [i \in 1..n |-> GetQueues[f[i]]] : S \in SUBSET (1..Len(GetQueues))}

\* Variant: random.seed is not called.
seedSkipped(g, s) == g

\* random.seed(random_seed)
seed(g, s) == [seed |-> <<s>>, count |-> 0]

\* The values the generator may yield next for a draw out of n: the one it
\* yielded at this point after the same seed before, if any.
Drawn(n) ==
    IF /\ rng.seed # <<>>
       /\ rng.count < Len(stream)
       /\ stream[rng.count + 1].n = n
    THEN {stream[rng.count + 1].v}
    ELSE 0..(n - 1)

\* The generator yields v for a draw out of n.
Draw(n, v) ==
    /\ v \in Drawn(n)
    /\ rng' = [rng EXCEPT !.count = @ + 1]
    /\ stream' =
          IF rng.seed = <<>> THEN stream
          ELSE IF rng.count < Len(stream)
               THEN [stream EXCEPT ![rng.count + 1] = [n |-> n, v |-> v]]
               ELSE Append(stream, [n |-> n, v |-> v])

Pick(pos) ==
    [type |-> "pick", iter |-> num_processed, pos |-> pos, queue |-> None,
     ids |-> <<>>]

Try(pos, q, ts) ==
    [type |-> "try", iter |-> num_processed, pos |-> pos, queue |-> q,
     ids |-> ts]

Delete(pos, q, t) ==
    [type |-> "delete", iter |-> num_processed, pos |-> pos, queue |-> q,
     ids |-> <<t.id>>]

\* Variant: the mode of the queue description is not looked at.
ModeIsAny(d) == TRUE

\* if queue_desc.get('mode') == 'push':
ModeIsPush(d) == d.mode = "push"

\* Variant: <= in place of <.
WithinLimitInclusive(n, mt) == n <= mt

\* while num_processed < max_tasks:
WithinLimit(n, mt) == n < mt

\* Variant: the task is left in its queue.
DeleteTaskKeeps(qs, q, name) == qs

\* queue_service.DeleteTask(queue_name, task.get('name'))
DeleteTask(qs, q, name) ==
    [qs EXCEPT ![q] = SelectSeq(@, LAMBDA t : t.name # name)]

\* queues[queue_index % queue_count], counted from 1
QueueDesc == queue_descs[(queue_index % Len(queue_descs)) + 1]

\* run_random, to its while loop: return 0 at once without descriptions,
\* else seed the generator.
run_random_begin(descs, mt) ==
    /\ queue_descs' = descs
    /\ max_tasks' = mt
    /\ random_seed' = DefaultSeed
    /\ op' = "run_random"
    /\ num_processed' = 0
    /\ queue_index' = 0
    /\ processed_queue_count' = 0
    /\ task_ran' = FALSE
    /\ random_task' = <<>>
    /\ IF descs = <<>>
       THEN /\ result' = 0
            /\ pc' = "done"
            /\ rng' = rng
       ELSE /\ result' = None
            /\ pc' = "rr_while"
            /\ rng' = seed(rng, DefaultSeed)

\* The test calls run_random(queue_service, queues, max_tasks=max_tasks).
RandomCall ==
    /\ pc = "idle"
    /\ \E descs \in DescLists, mt \in 0..MaxTasks :
          run_random_begin(descs, mt)
    /\ queues0' = queues
    /\ UNCHANGED << queues, nextId, arg, runVars, passVars, queue_name, tasks,
                    trace, enqueued, iterStart, requestVars, runnerVars,
                    stream, firstRun, task_dict >>

\* The while test succeeds: pick the queue description to start with.
RandomPick ==
    /\ pc = "rr_while"
    /\ WithinLimit(num_processed, max_tasks)
    /\ \E v \in 0..(Len(queue_descs) - 1) :
          /\ Draw(Len(queue_descs), v)
          /\ queue_index' = v
          /\ trace' = Append(trace, Pick(v + 1))
    /\ processed_queue_count' = 0
    /\ task_ran' = FALSE
    /\ pc' = "rr_round"
    /\ UNCHANGED << queues, nextId, op, arg, runVars, passVars, queueVars,
                    result, queues0, enqueued, iterStart, requestVars,
                    runnerVars, queue_descs, random_seed, max_tasks,
                    random_task, firstRun, task_dict >>

\* The queue description in turn yields no task: its mode is not push, or its
\* queue is empty, or the task picked from it has no name.  On to the next.
RandomTry ==
    /\ pc = "rr_round"
    /\ ~task_ran
    /\ processed_queue_count < Len(queue_descs)
    /\ LET q == QueueDesc.name
           ts == GetTasks(q)
       IN  \/ /\ ~ModeIsPush(QueueDesc) \/ ts = <<>>
              /\ trace' = Append(trace,
                      Try((queue_index % Len(queue_descs)) + 1, q, <<>>))
              /\ UNCHANGED << rng, stream >>
           \/ /\ ModeIsPush(QueueDesc)
              /\ ts # <<>>
              /\ \E v \in 0..(Len(ts) - 1) :
                    /\ Draw(Len(ts), v)
                    /\ ts[v + 1].name = <<>>
                    /\ trace' = Append(trace,
                            Try((queue_index % Len(queue_descs)) + 1, q,
                                <<ts[v + 1].id>>))
    /\ queue_index' = queue_index + 1
    /\ processed_queue_count' = processed_queue_count + 1
    /\ UNCHANGED << queues, nextId, pc, op, arg, runVars, passVars, queueVars,
                    result, queues0, enqueued, iterStart, requestVars,
                    runnerVars, queue_descs, random_seed, max_tasks, task_ran,
                    random_task, firstRun, task_dict >>

\* The queue description in turn is a push queue, and the task picked from
\* its pending tasks has a name: _execute_task(task).
RandomExecute ==
    /\ pc = "rr_round"
    /\ ~task_ran
    /\ processed_queue_count < Len(queue_descs)
    /\ ModeIsPush(QueueDesc)
    /\ LET q == QueueDesc.name
           ts == GetTasks(q)
       IN  /\ ts # <<>>
           /\ \E v \in 0..(Len(ts) - 1) :
                 /\ Draw(Len(ts), v)
                 /\ ts[v + 1].name # <<>>
                 /\ _execute_task(ts[v + 1], q)
                 /\ random_task' = <<ts[v + 1]>>
                 /\ trace' = Append(trace,
                         Exec(num_processed,
                              (queue_index % Len(queue_descs)) + 1, q,
                              ts[v + 1]))
           /\ queue_name' = q
    /\ pc' = "rr_delete"
    /\ UNCHANGED << op, arg, runVars, passVars, tasks, num_processed, result,
                    queues0, iterStart, runnerVars, queue_descs, random_seed,
                    max_tasks, queue_index, processed_queue_count, task_ran,
                    firstRun, task_dict >>

\* The task was executed: delete it from its queue by its name and count it.
RandomDelete ==
    /\ pc = "rr_delete"
    /\ queues' = DeleteTask(queues, queue_name, random_task[1].name)
    /\ trace' = Append(trace,
            Delete((queue_index % Len(queue_descs)) + 1, queue_name,
                   random_task[1]))
    /\ task_ran' = TRUE
    /\ num_processed' = num_processed + 1
    /\ random_task' = <<>>
    /\ pc' = "rr_while"
    /\ UNCHANGED << nextId, op, arg, runVars, passVars, queue_name, tasks,
                    result, queues0, enqueued, iterStart, requestVars,
                    runnerVars, rng, queue_descs, random_seed, max_tasks,
                    queue_index, processed_queue_count, stream, firstRun,
                    task_dict >>

\* run_random returns num_processed: max_tasks were run, or a whole round of
\* the queue descriptions ran no task.
RandomReturn ==
    /\ \/ pc = "rr_while" /\ ~WithinLimit(num_processed, max_tasks)
       \/ /\ pc = "rr_round"
          /\ ~task_ran
          /\ processed_queue_count >= Len(queue_descs)
    /\ result' = num_processed
    /\ pc' = "done"
    /\ UNCHANGED << queues, nextId, op, arg, runVars, passVars, queueVars,
                    queues0, trace, enqueued, iterStart, requestVars,
                    runnerVars, rng, randomVars, stream, firstRun, task_dict >>

RandomInit == InitWith(PlacementsOf(RandomBehaviours))

RandomNext ==
    \/ RandomCall
    \/ RandomPick
    \/ RandomTry
    \/ RandomExecute
    \/ RandomDelete
    \/ RandomReturn

RandomSpec == RandomInit /\ [][RandomNext]_vars

\* The test sets the service up again as it was before the call and calls
\* run_random once more with the same arguments.
RandomRepeat ==
    /\ pc = "done"
    /\ op = "run_random"
    /\ firstRun = <<>>
    /\ firstRun' = <<[executed |-> Executed, result |-> result]>>
    /\ queues' = queues0
    /\ nextId' = Cardinality(UNION {Ids(queues0[q]) : q \in QueueNames}) + 1
    /\ trace' = <<>>
    /\ enqueued' = NoEnqueued
    /\ run_random_begin(queue_descs, max_tasks)
    /\ UNCHANGED << arg, runVars, passVars, queue_name, tasks, queues0,
                    iterStart, requestVars, runnerVars, stream, task_dict >>

RepeatNext ==
    \/ RandomNext
    \/ RandomRepeat

RepeatSpec == RandomInit /\ [][RepeatNext]_vars

\* ---------------------------------------------------------------- add_tasks
\* Largest number of tasks in the task_dict handed to add_tasks.
MaxAdd == 2

\* The sign that fills up the last group of a base64 text.
B64Pad == 64

\* base64.b64encode: three bytes (0..255) become four signs (0..63); a last
\* group of one or two bytes is filled up with padding signs.
RECURSIVE b64encode(_)
b64encode(bs) ==
    IF bs = <<>> THEN <<>>
    ELSE IF Len(bs) = 1
         THEN << bs[1] \div 4, (bs[1] % 4) * 16, B64Pad, B64Pad >>
    ELSE IF Len(bs) = 2
         THEN << bs[1] \div 4, (bs[1] % 4) * 16 + bs[2] \div 16,
                 (bs[2] % 16) * 4, B64Pad >>
    ELSE << bs[1] \div 4, (bs[1] % 4) * 16 + bs[2] \div 16,
            (bs[2] % 16) * 4 + bs[3] \div 64, bs[3] % 64 >>
            \o b64encode(SubSeq(bs, 4, Len(bs)))

\* base64.b64decode: four signs become three bytes, fewer with padding.
RECURSIVE b64decode(_)
b64decode(cs) ==
    IF cs = <<>> THEN <<>>
    ELSE IF cs[3] = B64Pad
         THEN << cs[1] * 4 + cs[2] \div 16 >>
    ELSE IF cs[4] = B64Pad
         THEN << cs[1] * 4 + cs[2] \div 16,
                 (cs[2] % 16) * 16 + cs[3] \div 4 >>
    ELSE << cs[1] * 4 + cs[2] \div 16,
            (cs[2] % 16) * 16 + cs[3] \div 4,
            (cs[3] % 4) * 64 + cs[4] >>
            \o b64decode(SubSeq(cs, 5, Len(cs)))

\* The payloads of the tasks handed to add_tasks, as bytes: "M", "Ma", "Man".
Payloads == {<<77>>, <<77, 97>>, <<77, 97, 110>>}

\* The payload behind the 'body' of the task dictionaries that have one.
BodyPayload == <<102, 117, 114, 105>>

\* The methods recorded in the tasks handed to add_tasks.
Methods == {"POST", "PULL"}

\* A task in dictionary form: 'payload' and 'body' are <<>> when the key is
\* missing; one of them is there.
DictTask(p, b, m) ==
    [form |-> "dict", payload |-> p, body |-> b, method |-> m]

\* A taskqueue.Task instance.
TaskInstance(p, m) ==
    [form |-> "obj", payload |-> <<p>>, body |-> <<>>, method |-> m]

\* The tasks the test puts into a task_dict.
GivenTasks ==
    {DictTask(<<p>>, <<>>, m) : p \in Payloads, m \in Methods}
       \cup {DictTask(<<>>, <<b64encode(BodyPayload)>>, m) : m \in Methods}
       \cup {DictTask(<<p>>, <<b64encode(BodyPayload)>>, m) :
                p \in {<<77>>}, m \in Methods}
       \cup {TaskInstance(<<77>>, m) : m \in Methods}

\* The behaviours of the tasks pending before add_tasks.
AddBehaviours == {Leaf}

\* The task_dicts handed to add_tasks: at most MaxAdd tasks, listed queue by
\* queue as (queue position, task) pairs.
TaskDicts ==
    {pl \in UNION {[1..n -> (1..Len(GetQueues)) \X GivenTasks] :
                      n \in 0..MaxAdd} : Ordered(pl)}

RECURSIVE TasksFor(_, _, _)
TasksFor(pl, k, i) ==
    IF i > Len(pl) THEN <<>>
    ELSE IF pl[i][1] = k THEN <<pl[i][2]>> \o TasksFor(pl, k, i + 1)
    ELSE TasksFor(pl, k, i + 1)

AsDict(pl) ==
    [q \in QueueNames |->
        LET k == CHOOSE j \in 1..Len(GetQueues) : GetQueues[j].name = q
        IN  TasksFor(pl, k, 1)]

\* is_pullqueue = ('pull' == queue_desc_dict[queue_name]['mode'])
is_pullqueue(q) ==
    \E i \in 1..Len(GetQueues) :
       GetQueues[i].name = q /\ "pull" = GetQueues[i].mode

\* Variant: the body is looked at first.
payloadBodyFirst(t) ==
    IF t.body # <<>> THEN b64decode(t.body[1]) ELSE t.payload[1]

\* if 'payload' in task: payload = task['payload']
\* else: payload = base64.b64decode(task.get('body'))
payload(t) ==
    IF t.payload # <<>> THEN t.payload[1] ELSE b64decode(t.body[1])

\* The taskqueue.Task that goes to the queue for the given task t: t itself
\* if it is one, else a new one with method PULL for a pull queue and the
\* recorded method for a push queue.
task_obj(t, q) ==
    IF t.form = "obj"
    THEN [payload |-> t.payload[1], method |-> t.method]
    ELSE IF is_pullqueue(q)
         THEN [payload |-> payload(t), method |-> "PULL"]
         ELSE [payload |-> payload(t), method |-> t.method]

\* The record GetTasks returns for a taskqueue.Task the queue was given:
\* the service names the task and keeps its payload base64-encoded as body.
Stored(id, o) ==
    [id |-> id, name |-> <<id>>, kind |-> "leaf", to |-> None, gen |-> 0,
     body |-> b64encode(o.payload), method |-> o.method]

\* The number of tasks of the task_dict d listed for the first k queues.
RECURSIVE NumListed(_, _)
NumListed(d, k) ==
    IF k = 0 THEN 0
    ELSE NumListed(d, k - 1) + Len(d[GetQueues[k].name])

\* queue.add(tasks_to_add), for every queue of the task_dict d.
QueueAdd(d, q) ==
    LET k == CHOOSE j \in 1..Len(GetQueues) : GetQueues[j].name = q
    IN  [i \in 1..Len(d[q]) |->
            Stored(nextId + NumListed(d, k - 1) + i - 1, task_obj(d[q][i], q))]

\* The test calls add_tasks(taskq_service, task_dict).
AddTasksCall ==
    /\ pc = "idle"
    /\ \E pl \in TaskDicts :
          LET d == AsDict(pl)
          IN  /\ task_dict' = d
              /\ queues' = [q \in QueueNames |-> queues[q] \o QueueAdd(d, q)]
              /\ enqueued' = [q \in QueueNames |-> QueueAdd(d, q)]
              /\ nextId' = nextId + NumListed(d, Len(GetQueues))
              /\ result' = NumListed(d, Len(GetQueues))
    /\ op' = "add_tasks"
    /\ pc' = "added"
    /\ queues0' = queues
    /\ UNCHANGED << arg, runVars, passVars, queueVars, trace, iterStart,
                    requestVars, runnerVars, rng, randomVars, stream,
                    firstRun >>

\* get_tasks: a string is one queue name, nothing means all queues.
FetchedNames(a) == IF Truthy(a) THEN a.val ELSE get_queue_names

\* The test then calls get_tasks(taskq_service, queue_names).
GetTasksCall ==
    /\ pc = "added"
    /\ \E a \in {ArgNone} \cup {ArgName(q) : q \in QueueNames} :
          /\ arg' = a
          /\ result' = [q \in Range(FetchedNames(a)) |-> GetTasks(q)]
    /\ op' = "get_tasks"
    /\ pc' = "done"
    /\ UNCHANGED << queues, nextId, runVars, passVars, queueVars, queues0,
                    trace, enqueued, iterStart, requestVars, extVars >>

AddInit == InitWith(PlacementsOf(AddBehaviours))

AddNext ==
    \/ AddTasksCall
    \/ GetTasksCall

AddSpec == AddInit /\ [][AddNext]_vars

\* --------------------------------------------------------------- run_queue
\* C1: one call run_queue(service, q) executes exactly the tasks that were
\* pending in q when it fetched them, each once and in the fetched order,
\* and returns their count; no task inserted during the call, into q or into
\* any other queue, is executed by the call.
C1_RunQueueRunsItsSnapshot ==
    op = "run_queue" =>
        LET pending == IdSeq(queues0[arg.val[1]])
        IN  /\ IsPrefix(Executed, pending)
            /\ NoDuplicates(Executed)
            /\ Range(Executed) \cap EnqueuedIds = {}
            /\ pc = "done" => Executed = pending /\ result = Len(pending)

\* A call that ran two tasks, one of which inserted a task into the queue
\* being run, has returned.
C1_Witness ==
    /\ Returned("run_queue")
    /\ Len(Executed) >= 2
    /\ enqueued[arg.val[1]] # <<>>

\* C2: when run_queue(service, q) has returned, the pending tasks of q are
\* exactly the tasks the executed tasks inserted into q during the call, so
\* q is empty when none of them inserted into q.
C2_QueueHoldsOnlyInserted ==
    Returned("run_queue") => queues[arg.val[1]] = enqueued[arg.val[1]]

\* A call on a non-empty queue has returned and left an inserted task there.
C2_Witness ==
    /\ Returned("run_queue")
    /\ queues0[arg.val[1]] # <<>>
    /\ queues[arg.val[1]] # <<>>

\* --------------------------------------------------------------------- run
\* The number of tasks executed in iteration i (the first iteration is 0).
ExecCount(i) ==
    Cardinality({k \in 1..Len(trace) : IsExec(trace[k]) /\ trace[k].iter = i})

\* The identifiers pending, when the call was made, in the queues named.
PendingAtCall(names) == UNION {Ids(queues0[names[i]]) : i \in 1..Len(names)}

TasksAtCall(names) == UNION {Range(queues0[names[i]]) : i \in 1..Len(names)}

\* C3: run stops after the first iteration that executes no task or when
\* iterations reaches max_iterations, whichever comes first.  Every iteration
\* but the last executed a task; with max_iterations = m >= 1 the returned
\* iterations is in 1..m and is below m only if the last iteration executed
\* nothing; without a limit the last iteration executed nothing; and
\* tasks_processed is the number of task executions of the call.
C3_RunStopsAtQuiescenceOrLimit ==
    Returned("run") =>
        /\ result.tasks_processed = Len(Executed)
        /\ \A i \in 0..(result.iterations - 2) : ExecCount(i) > 0
        /\ max_iterations = NoLimit =>
              /\ result.iterations >= 1
              /\ ExecCount(result.iterations - 1) = 0
        /\ max_iterations # NoLimit /\ max_iterations[1] >= 1 =>
              /\ result.iterations \in 1..max_iterations[1]
              /\ result.iterations < max_iterations[1]
                    => ExecCount(result.iterations - 1) = 0

\* run with max_iterations = 3 has returned after two iterations, the first
\* of which executed tasks.
C3_Witness ==
    /\ Returned("run")
    /\ max_iterations = Limit(3)
    /\ result.iterations = 2
    /\ result.tasks_processed >= 2

\* C4: run with max_iterations = 0 executes no task, leaves every queue as
\* it was and returns {iterations: 0, tasks_processed: 0}.
C4_ZeroIterationsDoesNothing ==
    op = "run" /\ max_iterations = Limit(0) =>
        /\ trace = <<>>
        /\ queues = queues0
        /\ pc = "done" => result = [iterations |-> 0, tasks_processed |-> 0]

\* run with max_iterations = 0 has returned while tasks are pending in the
\* queues it was to drain.
C4_Witness ==
    /\ Returned("run")
    /\ max_iterations = Limit(0)
    /\ PendingIds(queue_names) # {}

\* C5: when the drained queues hold N >= 1 tasks and none of them inserts
\* anything, run without max_iterations returns {iterations: 2,
\* tasks_processed: N}.
C5_LeafTasksTakeTwoIterations ==
    LET N == Cardinality(PendingAtCall(queue_names))
    IN  /\ Returned("run")
        /\ max_iterations = NoLimit
        /\ N >= 1
        /\ \A t \in TasksAtCall(queue_names) : t.kind = "leaf"
        => result = [iterations |-> 2, tasks_processed |-> N]

\* run without arguments has returned after draining leaf tasks from both
\* push queues.
C5_Witness ==
    /\ Returned("run")
    /\ max_iterations = NoLimit
    /\ arg = ArgNone
    /\ \A t \in TasksAtCall(queue_names) : t.kind = "leaf"
    /\ \A i \in 1..Len(queue_names) : queues0[queue_names[i]] # <<>>

\* A task that re-inserts itself for ever was pending, when run was called,
\* in one of the queues run drains.
SelfDrained == \E t \in TasksAtCall(queue_names) : t.kind = "self"

\* C6: run returns whenever every chain of follow-on tasks ends, with or
\* without max_iterations.  With a task that re-inserts itself for ever,
\* run without max_iterations never returns; with max_iterations given it
\* returns, and for max_iterations = m >= 1 after exactly m iterations.
C6_RunTerminatesUnlessSelfReplicating ==
    /\ (op = "run" /\ (~SelfDrained \/ max_iterations # NoLimit))
          ~> (pc = "done")
    /\ [](op = "run" /\ SelfDrained /\ max_iterations = NoLimit
             => pc # "done")
    /\ [](Returned("run") /\ SelfDrained /\ max_iterations # NoLimit
             => IF max_iterations[1] >= 1
                THEN result.iterations = max_iterations[1]
                ELSE result.iterations = 0)

\* run with max_iterations = 3 has returned, after three iterations, from
\* queues that held a self-replicating task.
C6_Witness ==
    /\ Returned("run")
    /\ SelfDrained
    /\ max_iterations = Limit(3)
    /\ result.iterations = 3

\* run without max_iterations has returned from queues whose tasks started
\* chains of follow-on tasks, all of which ended.
C6_WitnessAcyclic ==
    /\ Returned("run")
    /\ ~SelfDrained
    /\ max_iterations = NoLimit
    /\ result.iterations >= 3

\* The identifiers of the tasks executed in iteration i.
ExecutedIn(i) ==
    {trace[k].ids[1] :
        k \in {j \in 1..Len(trace) : IsExec(trace[j]) /\ trace[j].iter = i}}

\* C7: every task pending in a drained queue when an iteration starts is
\* executed during that iteration; so every task pending when run is called
\* with max_iterations None or >= 1 is executed in the first iteration.
C7_IterationRunsAllCurrentTasks ==
    /\ op = "run" /\ pc \in {"run_while", "run_return", "done"}
          /\ iterations >= 1
          => /\ iterStart \subseteq ExecutedIn(iterations - 1)
             /\ PendingAtCall(queue_names) \subseteq ExecutedIn(0)
    /\ Returned("run") /\ max_iterations # Limit(0)
          => PendingAtCall(queue_names) \subseteq ExecutedIn(0)

\* The second iteration of a run started with tasks pending and has ended.
C7_Witness ==
    /\ op = "run"
    /\ pc = "run_while"
    /\ iterations = 2
    /\ iterStart # {}

PullNames == Range(get_pull_queue_names)

C9_QueuesDrainedInOrder ==
    op = "run" =>
        /\ \A k \in 1..Len(trace) :
              /\ trace[k].pos \in 1..Len(queue_names)
              /\ trace[k].queue = queue_names[trace[k].pos]
        /\ \A k, l \in 1..Len(trace) :
              k < l =>
                 /\ trace[k].iter <= trace[l].iter
                 /\ trace[k].iter = trace[l].iter
                       => trace[k].pos <= trace[l].pos
        /\ \A k, l \in 1..Len(trace) :
              /\ k < l
              /\ IsFetch(trace[k])
              /\ IsFetch(trace[l])
              /\ trace[k].iter = trace[l].iter
              => \A id \in Range(trace[k].ids) :
                    \E j \in (k + 1)..(l - 1) :
                       /\ IsExec(trace[j])
                       /\ trace[j].ids = <<id>>
                       /\ trace[j].pos = trace[k].pos

\* In one iteration a task of the first queue inserted a task into the
\* second queue, and tasks of both queues were executed.
C9_Witness ==
    /\ op = "run"
    /\ \E k, l \in 1..Len(trace) :
          /\ IsExec(trace[k])
          /\ IsExec(trace[l])
          /\ trace[k].iter = trace[l].iter
          /\ trace[k].pos < trace[l].pos
          /\ trace[l].ids[1] \in EnqueuedIds

\* -------------------------------------------------------------- purge_tasks
\* The queues purge_tasks was asked to purge: all of them without names.
PurgeNamed == IF Truthy(arg) THEN Range(arg.val) ELSE QueueNames

C10_WitnessAll ==
    /\ Returned("purge_tasks")
    /\ arg = ArgNone
    /\ \E q \in PullNames : queues0[q] # <<>>
    /\ result = 2


\* ------------------------------------------------------------- run, at return
\* run returned because max_iterations >= 1 iterations were made.
ReturnedAtLimit ==
    /\ Returned("run")
    /\ max_iterations # NoLimit
    /\ max_iterations[1] >= 1
    /\ iterations = max_iterations[1]

\* C20: when run returns with fewer iterations than max_iterations, or
\* without a limit, every queue it drained is empty; when it returns because
\* iterations reached max_iterations, the tasks still pending in the drained
\* queues were all inserted during the last iteration and none of them was
\* executed.
C20_QuiescentUnlessLimitReached ==
    /\ Returned("run") /\ max_iterations = NoLimit
          => PendingIds(queue_names) = {}
    /\ Returned("run") /\ max_iterations # NoLimit
          => (iterations < max_iterations[1]
                 => PendingIds(queue_names) = {})
    /\ ReturnedAtLimit
          => /\ PendingIds(queue_names) \cap Range(Executed) = {}
             /\ PendingIds(queue_names) \cap iterStart = {}
             /\ PendingIds(queue_names) \subseteq EnqueuedIds

\* run returned at its limit while a drained queue holds a task.
C20_Witness ==
    /\ ReturnedAtLimit
    /\ PendingIds(queue_names) # {}

\* run returned below its limit after executing a task.
C20_WitnessQuiescent ==
    /\ Returned("run")
    /\ max_iterations # NoLimit
    /\ iterations < max_iterations[1]
    /\ Executed # <<>>


\* ------------------------------------------- when the task processor fails
IsFailed(e) == e.type = "fail"

\* The position in the trace of the first failed execution.
FailIndex ==
    CHOOSE f \in 1..Len(trace) :
       IsFailed(trace[f]) /\ \A j \in 1..(f - 1) : ~IsFailed(trace[j])

\* The position in the trace of the fetch whose snapshot held the task that
\* failed: the last fetch before the failure.
FailFetch ==
    CHOOSE s \in 1..FailIndex :
       /\ IsFetch(trace[s])
       /\ \A j \in (s + 1)..FailIndex : ~IsFetch(trace[j])

\* The number of times the task id was handed to the task processor.
Attempts(id) ==
    Cardinality({j \in 1..Len(trace) :
                    /\ IsExec(trace[j]) \/ IsFailed(trace[j])
                    /\ trace[j].ids = <<id>>})

\* C18: when the task processor fails on the k-th task of a run_queue
\* snapshot, the failure reaches the caller of run_queue or run and nothing
\* is returned; tasks 1..k-1 of the snapshot were executed once each, in
\* order, task k was attempted once, tasks k+1.. were never attempted, and
\* none of the tasks k.. is pending in the queue afterwards.
C18_FailureReachesCaller ==
    (\E j \in 1..Len(trace) : IsFailed(trace[j])) =>
        LET snap == trace[FailFetch].ids
            k    == FailIndex - FailFetch
        IN  /\ pc = "raised"
            /\ result = None
            /\ FailIndex = Len(trace)
            /\ k \in 1..Len(snap)
            /\ trace[FailIndex].ids = <<snap[k]>>
            /\ \A i \in 1..(k - 1) :
                  /\ IsExec(trace[FailFetch + i])
                  /\ trace[FailFetch + i].ids = <<snap[i]>>
            /\ \A i \in 1..Len(snap) :
                  Attempts(snap[i]) = IF i <= k THEN 1 ELSE 0
            /\ \A i \in k..Len(snap) :
                  snap[i] \notin Ids(queues[trace[FailFetch].queue])

\* The processor failed on a task that had another task of the snapshot
\* behind it.
C18_Witness ==
    /\ pc = "raised"
    /\ FailIndex - FailFetch < Len(trace[FailFetch].ids)

\* The processor failed on the second task of a snapshot, after the first
\* one had put a task into the queue.
C18_WitnessSecond ==
    /\ pc = "raised"
    /\ FailIndex - FailFetch = 2
    /\ queues[trace[FailFetch].queue] # <<>>


\* ------------------------------------------------------------ _execute_task
\* The request identifiers the task processor has seen so far.
RequestIds ==
    LET ev == SelectSeq(trace, LAMBDA e : IsExec(e) \/ IsFailed(e))
    IN  [i \in 1..Len(ev) |-> ev[i].rid]

\* C17: every task execution ran under a request identifier of its own, and
\* between two executions and when the call is over, by a return or by a
\* failure that reaches the caller, the request identifier is removed and
\* the request-scoped context is cleared.
C17_RequestScopeCleared ==
    /\ \A i \in 1..Len(RequestIds) : RequestIds[i] # <<>>
    /\ NoDuplicates(RequestIds)
    /\ environ = <<>>
    /\ context = <<>>

\* C17, as far as it holds: the same, for as long as the task processor has
\* not failed.
C17_RequestScopeClearedUnlessFailed ==
    /\ \A i \in 1..Len(RequestIds) : RequestIds[i] # <<>>
    /\ NoDuplicates(RequestIds)
    /\ pc # "raised" => environ = <<>> /\ context = <<>>
    /\ pc = "raised" => environ = trace[Len(trace)].rid


\* ------------------------------------------------------------------- Runner
\* C16: the queue names of a Runner are those bound when it was constructed,
\* whatever calls were made on it since, and Runner.run executes tasks only
\* from queues whose names are among them.
C16_RunnerKeepsItsQueueNames ==
    runner # <<>> =>
        /\ runner = runner0
        /\ op = "run" =>
              \A j \in 1..Len(trace) :
                 IsExec(trace[j]) => trace[j].queue \in Range(runner0[1])

\* C16, as far as it holds: the same for a Runner that was bound to at least
\* one queue name; a Runner bound to no name executes tasks from the push
\* queues only.
C16_RunnerKeepsItsQueueNamesUnlessEmpty ==
    runner # <<>> =>
        /\ runner = runner0
        /\ op = "run" =>
              \A j \in 1..Len(trace) :
                 IsExec(trace[j]) =>
                    trace[j].queue \in
                       Range(IF runner0[1] = <<>> THEN get_push_queue_names
                             ELSE runner0[1])


\* --------------------------------------------------------------- run_random
IsPick(e) == e.type = "pick"

IsTry(e) == e.type = "try"

IsDelete(e) == e.type = "delete"

\* The names of the push-mode queues among the queue descriptions given.
PushDescNames ==
    {queue_descs[i].name : i \in {j \in 1..Len(queue_descs) :
                                     queue_descs[j].mode = "push"}}

\* The call ended with a round that ran no task: after the last pick, every
\* queue description was tried once, from the picked one on and around, and
\* nothing else happened.
EndedWithIdleRound ==
    LET n == Len(queue_descs)
    IN  \E k \in 1..Len(trace) :
           /\ IsPick(trace[k])
           /\ Len(trace) = k + n
           /\ \A i \in 1..n :
                 /\ IsTry(trace[k + i])
                 /\ trace[k + i].pos = ((trace[k].pos + i - 2) % n) + 1
                 /\ trace[k + i].queue = queue_descs[trace[k + i].pos].name

C11_WitnessDrained ==
    /\ Returned("run_random")
    /\ result < max_tasks
    /\ result >= 1
    /\ Len(queue_descs) >= 2
    /\ \A q \in PushDescNames : queues[q] = <<>>


\* C12: a second run_random with the same seed, the same queue descriptions,
\* the same queue contents and the same behaviour of the tasks executes the
\* same task identifiers in the same order as the first and returns the
\* same count.
C12_RandomIsDeterministic ==
    firstRun # <<>> =>
        /\ IsPrefix(Executed, firstRun[1].executed)
        /\ pc = "done" =>
              /\ Executed = firstRun[1].executed
              /\ result = firstRun[1].result

\* The second of two identical runs has returned, after two executions for
\* which the generator had to choose between two tasks.
C12_Witness ==
    /\ firstRun # <<>>
    /\ pc = "done"
    /\ Len(Executed) >= 2
    /\ \E j \in 1..Len(stream) : stream[j].n >= 2

\* C13: run_random executes and deletes tasks of push-mode queue
\* descriptions only, deletes no task of a pull queue, and with no push-mode
\* queue description (or none at all) executes nothing, leaves every queue
\* as it was and returns 0.
C13_RandomRunsPushQueuesOnly ==
    op = "run_random" =>
        /\ \A j \in 1..Len(trace) :
              IsExec(trace[j]) \/ IsDelete(trace[j])
                 => trace[j].queue \in PushDescNames
        /\ \A q \in PullNames : IsPrefix(queues0[q], queues[q])
        /\ PushDescNames = {} =>
              /\ Executed = <<>>
              /\ queues = queues0
              /\ Returned("run_random") => result = 0

\* run_random has returned after executing a task while it was also given
\* the description of a pull queue that holds a task.
C13_Witness ==
    /\ Returned("run_random")
    /\ result >= 1
    /\ \E i \in 1..Len(queue_descs) :
          /\ queue_descs[i].mode = "pull"
          /\ queues0[queue_descs[i].name] # <<>>

\* run_random has returned 0 for pull queue descriptions only, asked for a
\* task, with a pull queue and a push queue holding one.
C13_WitnessNoPush ==
    /\ Returned("run_random")
    /\ queue_descs # <<>>
    /\ PushDescNames = {}
    /\ max_tasks >= 1
    /\ \E q \in PullNames : queues[q] # <<>>
    /\ \E q \in QueueNames \ PullNames : queues[q] # <<>>

\* The tasks pending in the push-mode queues described when run_random was
\* called.
RandomTasksAtCall == UNION {Range(queues0[q]) : q \in PushDescNames}

Min(a, b) == IF a <= b THEN a ELSE b

\* C19: every task run_random counts was executed and then, at once, deleted
\* from its own queue by its name, and no task is executed twice; when all
\* tasks pending in the push-mode queues described have names and insert
\* nothing, run_random returns min(max_tasks, T) for T such tasks, after
\* executing that many of them, and leaves exactly the others pending.
C19_RandomExecutesThenDeletes ==
    op = "run_random" =>
        /\ \A j \in 1..Len(trace) :
              IsExec(trace[j]) =>
                 IF j = Len(trace)
                 THEN /\ pc = "rr_delete"
                      /\ trace[j].ids[1] \in Ids(queues[trace[j].queue])
                 ELSE /\ IsDelete(trace[j + 1])
                      /\ trace[j + 1].ids = trace[j].ids
                      /\ trace[j + 1].queue = trace[j].queue
        /\ \A j \in 1..Len(trace) :
              IsDelete(trace[j]) =>
                 /\ j > 1
                 /\ IsExec(trace[j - 1])
                 /\ \A q \in QueueNames : trace[j].ids[1] \notin Ids(queues[q])
        /\ num_processed = Len(SelectSeq(trace, IsDelete))
        /\ NoDuplicates(Executed)
        /\ /\ Returned("run_random")
           /\ \A t \in RandomTasksAtCall : t.kind = "leaf" /\ t.name # <<>>
           => LET T == Cardinality(RandomTasksAtCall)
              IN  /\ result = Min(max_tasks, T)
                  /\ Len(Executed) = result
                  /\ Range(Executed) \subseteq {t.id : t \in RandomTasksAtCall}
                  /\ UNION {Range(queues[q]) : q \in PushDescNames}
                        = {t \in RandomTasksAtCall : t.id \notin Range(Executed)}

\* run_random has returned after executing one of two named tasks that
\* insert nothing, leaving the other pending.
C19_Witness ==
    /\ Returned("run_random")
    /\ \A t \in RandomTasksAtCall : t.kind = "leaf" /\ t.name # <<>>
    /\ Cardinality(RandomTasksAtCall) = 2
    /\ result = 1


\* ---------------------------------------------------------------- add_tasks
\* The task of queue q that add_tasks made of the i-th task listed for q.
Added(q, i) == queues[q][Len(queues0[q]) + i]

\* C14: every task add_tasks reconstructs from dictionary form has method
\* PULL if it is added to a pull queue and another method if it is added to
\* a push queue, whatever method the dictionary records.
C14_ReconstructedTasksFitQueueMode ==
    op = "add_tasks" =>
        \A q \in QueueNames : \A i \in 1..Len(task_dict[q]) :
           task_dict[q][i].form = "dict" =>
              (Added(q, i).method = "PULL" <=> is_pullqueue(q))

\* C14, as far as it holds: a task reconstructed for a pull queue has method
\* PULL, one reconstructed for a push queue has the method its dictionary
\* records.
C14_ReconstructedTasksKeepPushMethod ==
    op = "add_tasks" =>
        \A q \in QueueNames : \A i \in 1..Len(task_dict[q]) :
           task_dict[q][i].form = "dict" =>
              Added(q, i).method =
                 IF is_pullqueue(q) THEN "PULL" ELSE task_dict[q][i].method

\* C15: after add_tasks every queue holds as many more tasks as were listed
\* for it and add_tasks has returned the number of all tasks listed; what
\* get_tasks then returns for a queue ends with the tasks listed for it, and
\* the body of each task that was given as a dictionary with a payload
\* decodes to that payload, whether the dictionary also had a body or not.
C15_AddTasksRoundTrips ==
    /\ pc = "added" =>
          /\ result = NumListed(task_dict, Len(GetQueues))
          /\ \A q \in QueueNames :
                Len(queues[q]) = Len(queues0[q]) + Len(task_dict[q])
    /\ Returned("get_tasks") =>
          \A q \in DOMAIN result :
             /\ Len(result[q]) = Len(queues0[q]) + Len(task_dict[q])
             /\ IsPrefix(queues0[q], result[q])
             /\ \A i \in 1..Len(task_dict[q]) :
                   LET t == task_dict[q][i]
                   IN  t.form = "dict" /\ t.payload # <<>> =>
                          b64decode(result[q][Len(queues0[q]) + i].body)
                             = t.payload[1]

\* get_tasks has returned the tasks of a queue that held a task before, to
\* which add_tasks added a task given with a payload and a body.
C15_Witness ==
    /\ Returned("get_tasks")
    /\ \E q \in DOMAIN result :
          /\ queues0[q] # <<>>
          /\ \E i \in 1..Len(task_dict[q]) :
                /\ task_dict[q][i].form = "dict"
                /\ task_dict[q][i].payload # <<>>
                /\ task_dict[q][i].body # <<>>

====
